---- MODULE Spec2Model ----
(***************************************************************************)
(* The Star Wars favourites API (src/src/app.py, src/src/models.py) as a   *)
(* state machine.  The state is the relational store (the User, People,    *)
(* Planet and Favorite tables), the access tokens login has handed out,    *)
(* and the last request/response exchange.  One action per HTTP handler.   *)
(*                                                                         *)
(* Spec      handlers run to completion one at a time.                     *)
(* SpecConc  the add-favorite handlers are split at their commit, so two   *)
(*           requests can both run the existence check before either       *)
(*           inserts.                                                      *)
(* SpecE2E   any sequential history followed by the end-to-end scenario    *)
(*           signup, login, add, add, remove, remove.                      *)
(***************************************************************************)
EXTENDS Integers, FiniteSets, Sequences, Bags, TLC

VARIABLES
    users,      \* User table: set of rows [id, email, password, is_active]
    people,     \* People table: set of primary keys (pre-seeded, no writer)
    planets,    \* Planet table: set of primary keys (pre-seeded, no writer)
    favorites,  \* Favorite table: set of rows [id, user_id, people_id, planet_id]
    issued,     \* access tokens returned by /login so far
    req,        \* the request answered last
    resp,       \* the response to it
    pending,    \* SpecConc: add requests past their existence check, not yet committed
    script      \* SpecE2E: progress of the end-to-end scenario

vars == <<users, people, planets, favorites, issued, req, resp, pending, script>>
store == <<users, people, planets, favorites>>

----------------------------------------------------------------------------
(* Bounds of the model *)

\* Largest Favorite primary key the model hands out.
MaxFavId == 3
\* Add requests between their existence check and their insert at one time
\* (SpecConc).
MaxPending == 2

\* The seeded Planet and People rows, by primary key.
SeededPlanets == {1}
SeededPeople == {1}
\* Path parameters <int:planet_id>, <int:people_id>: a seeded id and one that
\* no row has.
PlanetIds == SeededPlanets \cup {2}
PeopleIds == SeededPeople \cup {2}

\* A JSON field that is absent (data.get returns None).
None == "None"
\* A nullable integer column holding NULL (primary keys start at 1).
NULL == 0

Emails == {"a@b.com", "c@d.com"}
\* Passwords users sign up with, and one nobody signed up with.
Passwords == {"x"}
WrongPassword == "y"
\* What a client can put in the email and password fields of a JSON body.
EmailInputs == Emails \cup {None, ""}
PasswordInputs == Passwords \cup {None, ""}

----------------------------------------------------------------------------
(* flask_jwt_extended, as app.py configures it *)

JWT_SECRET_KEY == "super-secret-key"
\* A key the server does not sign with.
OtherKey == "not-the-server-key"

\* An HMAC over the claims: only the holder of the key can produce it.
Sign(key, sub) == <<key, sub>>

\* No Authorization header.
NoToken == [sub |-> 0, sig |-> <<"", 0>>]

create_access_token(identity) ==
    [sub |-> identity, sig |-> Sign(JWT_SECRET_KEY, identity)]

\* @jwt_required() with the library's default callbacks (app.py registers
\* none): a request without a token is answered 401, a token whose signature
\* does not verify is answered 422, otherwise the handler runs (0).
jwt_required(token) ==
    IF token = NoToken THEN 401
    ELSE IF token.sig # Sign(JWT_SECRET_KEY, token.sub) THEN 422
    ELSE 0

get_jwt_identity(token) == token.sub

\* Tokens a client can present: none, one login returned, one signed with
\* another key, or a login token with its subject rewritten.
UserIds == 1..Cardinality(Emails)
Presentable ==
    {NoToken} \cup issued
    \cup {[sub |-> u, sig |-> Sign(OtherKey, u)] : u \in UserIds}
    \cup {[t EXCEPT !.sub = u] : t \in issued, u \in UserIds}

----------------------------------------------------------------------------
(* Responses *)

NoList == {}
Json(status, msg) == [status |-> status, msg |-> msg, token |-> NoToken, list |-> NoList]
TokenJson(token) == [status |-> 200, msg |-> "", token |-> token, list |-> NoList]
ListJson(rows) == [status |-> 200, msg |-> "list", token |-> NoToken, list |-> rows]
\* The answer of the auth guard's default callbacks.
GuardJson(status) == Json(status, "jwt")
\* Not an answer: the handler goes on.
Proceed == Json(0, "")

Request(op, email, password, token, id) ==
    [op |-> op, email |-> email, password |-> password, token |-> token, id |-> id]

----------------------------------------------------------------------------
(* Queries *)

\* A slip: "is None" in place of "not".
FalsyNoneOnly(v) == v = None

\* Python truthiness of a JSON string field: None and "" are falsy.
Falsy(v) == v = None \/ v = ""

\* User.query.filter_by(email=email)
UsersByEmail(email) == {u \in users : u.email = email}

\* A slip: the password left out of the login query.
UsersByEmailOnly(email, password) == {u \in users : u.email = email}

\* User.query.filter_by(email=email, password=password)
UsersByCredentials(email, password) ==
    {u \in users : u.email = email /\ u.password = password}

\* A slip: the list query without its user_id filter.
AllFavorites(table, user_id) == table

\* Favorite.query.filter_by(user_id=current_user_id), serialized.  serialize()
\* copies the four columns of a row; the order of the rows is not specified.
FavoritesOf(table, user_id) == {f \in table : f.user_id = user_id}

\* A slip: the planet query filtering the people_id column.
PlanetFavoritesByPeopleColumn(user_id, planet_id) ==
    {f \in favorites : f.user_id = user_id /\ f.people_id = planet_id}

\* A slip: the planet query without its user_id filter.
PlanetFavoritesOfAnyUser(user_id, planet_id) ==
    {f \in favorites : f.planet_id = planet_id}

\* Favorite.query.filter_by(user_id=current_user_id, planet_id=planet_id)
PlanetFavorites(user_id, planet_id) ==
    {f \in favorites : f.user_id = user_id /\ f.planet_id = planet_id}

\* A slip: the people query filtering the planet_id column.
PeopleFavoritesByPlanetColumn(user_id, people_id) ==
    {f \in favorites : f.user_id = user_id /\ f.planet_id = people_id}

\* Favorite.query.filter_by(user_id=current_user_id, people_id=people_id)
PeopleFavorites(user_id, people_id) ==
    {f \in favorites : f.user_id = user_id /\ f.people_id = people_id}

\* The primary key the store gives a new row: one past the largest in use.
NextId(table) ==
    IF table = {} THEN 1
    ELSE (CHOOSE i \in {r.id : r \in table} : \A r \in table : r.id <= i) + 1

\* Favorite(user_id=..., planet_id=...): the column not given is NULL.
PlanetFavorite(user_id, planet_id) ==
    [id |-> NextId(favorites), user_id |-> user_id, people_id |-> NULL, planet_id |-> planet_id]

\* A slip: the id written to both foreign keys.
PeopleFavoriteBothColumns(user_id, people_id) ==
    [id |-> NextId(favorites), user_id |-> user_id, people_id |-> people_id, planet_id |-> people_id]

\* Favorite(user_id=..., people_id=...)
PeopleFavorite(user_id, people_id) ==
    [id |-> NextId(favorites), user_id |-> user_id, people_id |-> people_id, planet_id |-> NULL]

----------------------------------------------------------------------------
(* Initial state: empty User and Favorite tables, seeded People and Planets *)

Init ==
    /\ users = {}
    /\ people = SeededPeople
    /\ planets = SeededPlanets
    /\ favorites = {}
    /\ issued = {}
    /\ req = Request("none", None, None, NoToken, 0)
    /\ resp = Json(0, "")
    /\ pending = EmptyBag
    /\ script = [pc |-> 0, email |-> None, password |-> None, planet |-> 0, token |-> NoToken]

----------------------------------------------------------------------------
(* Handlers *)

\* POST /signup
signup(email, password) ==
    /\ req' = Request("signup", email, password, NoToken, 0)
    /\ IF Falsy(email) \/ Falsy(password)
       THEN /\ resp' = Json(400, "Missing email or password")
            /\ UNCHANGED users
       ELSE IF UsersByEmail(email) # {}
       THEN /\ resp' = Json(400, "Email already exists")
            /\ UNCHANGED users
       ELSE /\ users' = users \cup
                  {[id |-> NextId(users), email |-> email, password |-> password, is_active |-> TRUE]}
            /\ resp' = Json(201, "User created")
    /\ UNCHANGED <<people, planets, favorites, issued>>

\* POST /login
login(email, password) ==
    /\ req' = Request("login", email, password, NoToken, 0)
    /\ IF UsersByCredentials(email, password) = {}
       THEN /\ resp' = Json(401, "Invalid credentials")
            /\ UNCHANGED issued
       ELSE \E user \in UsersByCredentials(email, password) :
            /\ resp' = TokenJson(create_access_token(user.id))
            /\ issued' = issued \cup {create_access_token(user.id)}
    /\ UNCHANGED store

\* GET /api/users/favorites
get_favorites(token) ==
    /\ req' = Request("get_favorites", None, None, token, 0)
    /\ resp' = IF jwt_required(token) # 0 THEN GuardJson(jwt_required(token))
               ELSE ListJson(FavoritesOf(favorites, get_jwt_identity(token)))
    /\ UNCHANGED <<store, issued>>

\* add_favorite_planet up to its insert: the guard, the planet lookup and
\* the existence check.
add_favorite_planet_check(token, planet_id) ==
    IF jwt_required(token) # 0 THEN GuardJson(jwt_required(token))
    ELSE IF planet_id \notin planets THEN Json(404, "Planet not found")
    ELSE IF PlanetFavorites(get_jwt_identity(token), planet_id) # {}
    THEN Json(400, "Planet already in favorites")
    ELSE Proceed

\* add_favorite_planet from its insert on: add, commit, answer with the list.
add_favorite_planet_insert(token, planet_id) ==
    /\ favorites' = favorites \cup {PlanetFavorite(get_jwt_identity(token), planet_id)}
    /\ resp' = ListJson(FavoritesOf(favorites', get_jwt_identity(token)))

\* POST /api/favorite/planet/<int:planet_id>
add_favorite_planet(token, planet_id) ==
    /\ req' = Request("add_favorite_planet", None, None, token, planet_id)
    /\ IF add_favorite_planet_check(token, planet_id) # Proceed
       THEN /\ resp' = add_favorite_planet_check(token, planet_id)
            /\ UNCHANGED favorites
       ELSE add_favorite_planet_insert(token, planet_id)
    /\ UNCHANGED <<users, people, planets, issued>>

\* A slip: the People lookup and its 404 left out.
add_favorite_person_check_no_lookup(token, people_id) ==
    IF jwt_required(token) # 0 THEN GuardJson(jwt_required(token))
    ELSE IF PeopleFavorites(get_jwt_identity(token), people_id) # {}
    THEN Json(400, "Person already in favorites")
    ELSE Proceed

\* add_favorite_person up to its insert.
add_favorite_person_check(token, people_id) ==
    IF jwt_required(token) # 0 THEN GuardJson(jwt_required(token))
    ELSE IF people_id \notin people THEN Json(404, "Person not found")
    ELSE IF PeopleFavorites(get_jwt_identity(token), people_id) # {}
    THEN Json(400, "Person already in favorites")
    ELSE Proceed

\* add_favorite_person from its insert on.
add_favorite_person_insert(token, people_id) ==
    /\ favorites' = favorites \cup {PeopleFavorite(get_jwt_identity(token), people_id)}
    /\ resp' = ListJson(FavoritesOf(favorites', get_jwt_identity(token)))

\* POST /api/favorite/people/<int:people_id>
add_favorite_person(token, people_id) ==
    /\ req' = Request("add_favorite_person", None, None, token, people_id)
    /\ IF add_favorite_person_check(token, people_id) # Proceed
       THEN /\ resp' = add_favorite_person_check(token, people_id)
            /\ UNCHANGED favorites
       ELSE add_favorite_person_insert(token, people_id)
    /\ UNCHANGED <<users, people, planets, issued>>

\* A slip: the delete issued on the user's rows, whatever their planet.
remove_favorite_planet_all_of_user(token, planet_id) ==
    /\ req' = Request("remove_favorite_planet", None, None, token, planet_id)
    /\ IF jwt_required(token) # 0
       THEN /\ resp' = GuardJson(jwt_required(token))
            /\ UNCHANGED favorites
       ELSE IF PlanetFavorites(get_jwt_identity(token), planet_id) = {}
       THEN /\ resp' = Json(404, "Favorite planet not found")
            /\ UNCHANGED favorites
       ELSE /\ favorites' = favorites \ FavoritesOf(favorites, get_jwt_identity(token))
            /\ resp' = ListJson(FavoritesOf(favorites', get_jwt_identity(token)))
    /\ UNCHANGED <<users, people, planets, issued>>

\* A slip: the delete issued on the query, which removes every matching row.
remove_favorite_planet_every_match(token, planet_id) ==
    /\ req' = Request("remove_favorite_planet", None, None, token, planet_id)
    /\ IF jwt_required(token) # 0
       THEN /\ resp' = GuardJson(jwt_required(token))
            /\ UNCHANGED favorites
       ELSE IF PlanetFavorites(get_jwt_identity(token), planet_id) = {}
       THEN /\ resp' = Json(404, "Favorite planet not found")
            /\ UNCHANGED favorites
       ELSE /\ favorites' = favorites \ PlanetFavorites(get_jwt_identity(token), planet_id)
            /\ resp' = ListJson(FavoritesOf(favorites', get_jwt_identity(token)))
    /\ UNCHANGED <<users, people, planets, issued>>

\* DELETE /api/favorite/planet/<int:planet_id>.  first() has no ORDER BY:
\* with several matching rows it may return any of them.
remove_favorite_planet(token, planet_id) ==
    /\ req' = Request("remove_favorite_planet", None, None, token, planet_id)
    /\ IF jwt_required(token) # 0
       THEN /\ resp' = GuardJson(jwt_required(token))
            /\ UNCHANGED favorites
       ELSE IF PlanetFavorites(get_jwt_identity(token), planet_id) = {}
       THEN /\ resp' = Json(404, "Favorite planet not found")
            /\ UNCHANGED favorites
       ELSE \E fav \in PlanetFavorites(get_jwt_identity(token), planet_id) :
            /\ favorites' = favorites \ {fav}
            /\ resp' = ListJson(FavoritesOf(favorites', get_jwt_identity(token)))
    /\ UNCHANGED <<users, people, planets, issued>>

\* DELETE /api/favorite/people/<int:people_id>
remove_favorite_person(token, people_id) ==
    /\ req' = Request("remove_favorite_person", None, None, token, people_id)
    /\ IF jwt_required(token) # 0
       THEN /\ resp' = GuardJson(jwt_required(token))
            /\ UNCHANGED favorites
       ELSE IF PeopleFavorites(get_jwt_identity(token), people_id) = {}
       THEN /\ resp' = Json(404, "Favorite person not found")
            /\ UNCHANGED favorites
       ELSE \E fav \in PeopleFavorites(get_jwt_identity(token), people_id) :
            /\ favorites' = favorites \ {fav}
            /\ resp' = ListJson(FavoritesOf(favorites', get_jwt_identity(token)))
    /\ UNCHANGED <<users, people, planets, issued>>

----------------------------------------------------------------------------
(* Spec: requests handled to completion, one at a time *)

Signup ==
    /\ UNCHANGED <<pending, script>>
    /\ \E e \in EmailInputs, p \in PasswordInputs : signup(e, p)
Login ==
    /\ UNCHANGED <<pending, script>>
    /\ \E e \in EmailInputs, p \in PasswordInputs \cup {WrongPassword} : login(e, p)
GetFavorites ==
    /\ UNCHANGED <<pending, script>>
    /\ \E t \in Presentable : get_favorites(t)
\* The model stops issuing add requests once the key space 1..MaxFavId is used up.
KeysLeft == NextId(favorites) <= MaxFavId
AddFavoritePlanet ==
    /\ UNCHANGED <<pending, script>>
    /\ KeysLeft
    /\ \E t \in Presentable, i \in PlanetIds : add_favorite_planet(t, i)
AddFavoritePerson ==
    /\ UNCHANGED <<pending, script>>
    /\ KeysLeft
    /\ \E t \in Presentable, i \in PeopleIds : add_favorite_person(t, i)
RemoveFavoritePlanet ==
    /\ UNCHANGED <<pending, script>>
    /\ \E t \in Presentable, i \in PlanetIds : remove_favorite_planet(t, i)
RemoveFavoritePerson ==
    /\ UNCHANGED <<pending, script>>
    /\ \E t \in Presentable, i \in PeopleIds : remove_favorite_person(t, i)

Next ==
    \/ Signup
    \/ Login
    \/ GetFavorites
    \/ AddFavoritePlanet
    \/ AddFavoritePerson
    \/ RemoveFavoritePlanet
    \/ RemoveFavoritePerson

Spec == Init /\ [][Next]_vars

----------------------------------------------------------------------------
(* SpecConc: two workers serve requests at once.  A request is interleaved *)
(* with the others at the commit of its insert: an add request runs its    *)
(* guard, lookup and existence check in one step and its insert, commit    *)
(* and answer in a later one.  Every other handler runs in one step, which *)
(* is one of the schedules the server allows.                              *)

PendingAdd(op, token, id) == [op |-> op, token |-> token, id |-> id]

\* Room for every pending insert in the key space of the model.
KeysLeftConc == NextId(favorites) + BagCardinality(pending) <= MaxFavId

CheckFavoritePlanet ==
    /\ BagCardinality(pending) < MaxPending
    /\ KeysLeftConc
    /\ \E t \in issued, i \in PlanetIds :
        IF add_favorite_planet_check(t, i) # Proceed
        THEN /\ req' = Request("add_favorite_planet", None, None, t, i)
             /\ resp' = add_favorite_planet_check(t, i)
             /\ UNCHANGED pending
        ELSE /\ pending' = pending (+) SetToBag({PendingAdd("add_favorite_planet", t, i)})
             /\ UNCHANGED <<req, resp>>
    /\ UNCHANGED <<store, issued, script>>

CheckFavoritePerson ==
    /\ BagCardinality(pending) < MaxPending
    /\ KeysLeftConc
    /\ \E t \in issued, i \in PeopleIds :
        IF add_favorite_person_check(t, i) # Proceed
        THEN /\ req' = Request("add_favorite_person", None, None, t, i)
             /\ resp' = add_favorite_person_check(t, i)
             /\ UNCHANGED pending
        ELSE /\ pending' = pending (+) SetToBag({PendingAdd("add_favorite_person", t, i)})
             /\ UNCHANGED <<req, resp>>
    /\ UNCHANGED <<store, issued, script>>

InsertFavoritePlanet ==
    \E p \in BagToSet(pending) :
        /\ p.op = "add_favorite_planet"
        /\ req' = Request(p.op, None, None, p.token, p.id)
        /\ add_favorite_planet_insert(p.token, p.id)
        /\ pending' = pending (-) SetToBag({p})
        /\ UNCHANGED <<users, people, planets, issued, script>>

InsertFavoritePerson ==
    \E p \in BagToSet(pending) :
        /\ p.op = "add_favorite_person"
        /\ req' = Request(p.op, None, None, p.token, p.id)
        /\ add_favorite_person_insert(p.token, p.id)
        /\ pending' = pending (-) SetToBag({p})
        /\ UNCHANGED <<users, people, planets, issued, script>>

\* The clients of SpecConc are signed up and logged in with their own tokens.
SignupConc ==
    /\ UNCHANGED <<pending, script>>
    /\ \E e \in Emails, p \in Passwords : signup(e, p)
LoginConc ==
    /\ UNCHANGED <<pending, script>>
    /\ \E e \in Emails, p \in Passwords : login(e, p)
GetFavoritesConc ==
    /\ UNCHANGED <<pending, script>>
    /\ \E t \in issued : get_favorites(t)
RemoveFavoritePlanetConc ==
    /\ UNCHANGED <<pending, script>>
    /\ \E t \in issued, i \in PlanetIds : remove_favorite_planet(t, i)
RemoveFavoritePersonConc ==
    /\ UNCHANGED <<pending, script>>
    /\ \E t \in issued, i \in PeopleIds : remove_favorite_person(t, i)

NextConc ==
    \/ SignupConc
    \/ LoginConc
    \/ GetFavoritesConc
    \/ RemoveFavoritePlanetConc
    \/ RemoveFavoritePersonConc
    \/ CheckFavoritePlanet
    \/ CheckFavoritePerson
    \/ InsertFavoritePlanet
    \/ InsertFavoritePerson

SpecConc == Init /\ [][NextConc]_vars

----------------------------------------------------------------------------
(* SpecE2E: after any sequential history, one client runs the end-to-end   *)
(* scenario, its six requests handled one after the other.                 *)

ScriptSignup ==
    /\ script.pc = 0
    /\ KeysLeft
    /\ \E e \in Emails, pw \in Passwords, p \in planets :
        /\ UsersByEmail(e) = {}
        /\ signup(e, pw)
        /\ script' = [pc |-> 1, email |-> e, password |-> pw, planet |-> p, token |-> NoToken]
    /\ UNCHANGED pending

ScriptLogin ==
    /\ script.pc = 1
    /\ login(script.email, script.password)
    /\ script' = [script EXCEPT !.pc = 2, !.token = resp'.token]
    /\ UNCHANGED pending

ScriptAdd ==
    /\ script.pc = 2
    /\ add_favorite_planet(script.token, script.planet)
    /\ script' = [script EXCEPT !.pc = 3]
    /\ UNCHANGED pending

ScriptAddAgain ==
    /\ script.pc = 3
    /\ add_favorite_planet(script.token, script.planet)
    /\ script' = [script EXCEPT !.pc = 4]
    /\ UNCHANGED pending

ScriptRemove ==
    /\ script.pc = 4
    /\ remove_favorite_planet(script.token, script.planet)
    /\ script' = [script EXCEPT !.pc = 5]
    /\ UNCHANGED pending

ScriptRemoveAgain ==
    /\ script.pc = 5
    /\ remove_favorite_planet(script.token, script.planet)
    /\ script' = [script EXCEPT !.pc = 6]
    /\ UNCHANGED pending

\* Until the scenario starts, any request of Spec.
History ==
    /\ script.pc = 0
    /\ Next

NextE2E ==
    \/ History
    \/ ScriptSignup
    \/ ScriptLogin
    \/ ScriptAdd
    \/ ScriptAddAgain
    \/ ScriptRemove
    \/ ScriptRemoveAgain

SpecE2E == Init /\ [][NextE2E]_vars

----------------------------------------------------------------------------
(* Properties *)

ProtectedOps ==
    {"get_favorites", "add_favorite_planet", "add_favorite_person",
     "remove_favorite_planet", "remove_favorite_person"}
AddOps == {"add_favorite_planet", "add_favorite_person"}
RemoveOps == {"remove_favorite_planet", "remove_favorite_person"}

\* The rows of a table that link user u to planet i, to person i.
PlanetRows(table, u, i) == {f \in table : f.user_id = u /\ f.planet_id = i}
PeopleRows(table, u, i) == {f \in table : f.user_id = u /\ f.people_id = i}
\* The rows of a table owned by user u.
Owned(table, u) == {f \in table : f.user_id = u}
\* The rows in which two tables differ.
Changed(before, after) == (before \ after) \cup (after \ before)

\* C1: with requests handled one at a time, the Favorite table never holds
\* two rows for the same (user_id, planet_id) with planet_id set, nor two
\* rows for the same (user_id, people_id) with people_id set.
C1_OneFavoritePerPair ==
    \A f, g \in favorites :
        /\ f.user_id = g.user_id /\ f.planet_id # NULL /\ f.planet_id = g.planet_id => f = g
        /\ f.user_id = g.user_id /\ f.people_id # NULL /\ f.people_id = g.people_id => f = g

\* C1's case: a user holds a planet and a person, and another user holds the
\* same planet.
C1_Witness ==
    \E f, g, h \in favorites :
        /\ f.user_id = g.user_id /\ f.planet_id # NULL /\ g.people_id # NULL
        /\ h.user_id # f.user_id /\ h.planet_id = f.planet_id

\* C2: a signup whose email belongs to a User row is answered 400 and leaves
\* the User table as it was; so is a signup whose email or password is
\* missing or empty; and no two User rows share an email.
C2_SignupRejects ==
    /\ [](\A u, v \in users : u.email = v.email => u = v)
    /\ [][req'.op = "signup" =>
            /\ (\E u \in users : u.email = req'.email)
                   => resp'.status = 400 /\ users' = users
            /\ (req'.email \in {None, ""} \/ req'.password \in {None, ""})
                   => resp'.status = 400 /\ users' = users]_vars

\* C2's case: a signup with a registered email was answered 400, and one
\* with an empty password could be told apart from it.
C2_Witness ==
    /\ req.op = "signup"
    /\ req.password \notin {None, ""}
    /\ \E u \in users : u.email = req.email
    /\ resp.status = 400
    /\ Cardinality(users) = 2

\* What C3 says of login: 200 with a token whose identity is the id of the
\* User row matching (email, password) exactly, and 401 with no token when
\* no row matches.
C3_LoginStep ==
    req'.op = "login" =>
        IF \E u \in users : u.email = req'.email /\ u.password = req'.password
        THEN /\ resp'.status = 200
             /\ resp'.token # NoToken
             /\ resp'.token \in issued'
             /\ \E u \in users : /\ u.email = req'.email
                                 /\ u.password = req'.password
                                 /\ get_jwt_identity(resp'.token) = u.id
        ELSE /\ resp'.status = 401
             /\ resp'.token = NoToken
             /\ issued' = issued

\* What C3 says of a token login issued: every protected route lets it
\* through to the handler, which answers 200, 400 or 404.
C3_AcceptStep ==
    req'.op \in ProtectedOps /\ req'.token \in issued
        => resp'.status \in {200, 400, 404}

C4_DuplicateAdd ==
    [][/\ ( /\ req'.op = "add_favorite_planet"
            /\ req'.token \in issued
            /\ req'.id \in planets
            /\ PlanetRows(favorites, req'.token.sub, req'.id) # {} )
          => /\ resp'.status = 400
             /\ Owned(favorites', req'.token.sub) = Owned(favorites, req'.token.sub)
             /\ Cardinality(Owned(favorites', req'.token.sub))
                    = Cardinality(Owned(favorites, req'.token.sub))
       /\ ( /\ req'.op = "add_favorite_person"
            /\ req'.token \in issued
            /\ req'.id \in people
            /\ PeopleRows(favorites, req'.token.sub, req'.id) # {} )
          => /\ resp'.status = 400
             /\ Owned(favorites', req'.token.sub) = Owned(favorites, req'.token.sub)
             /\ Cardinality(Owned(favorites', req'.token.sub))
                    = Cardinality(Owned(favorites, req'.token.sub))]_vars

\* C4's case: a second add of a person the user holds was answered 400.
C4_Witness ==
    /\ req.op = "add_favorite_person"
    /\ req.token \in issued
    /\ PeopleRows(favorites, req.token.sub, req.id) # {}
    /\ resp.status = 400

\* C5: an authenticated remove request for a planet or person the user has
\* no Favorite for is answered 404 and leaves the Favorite table as it was.
C5_RemoveMissing ==
    [][/\ ( /\ req'.op = "remove_favorite_planet"
            /\ req'.token \in issued
            /\ PlanetRows(favorites, req'.token.sub, req'.id) = {} )
          => resp'.status = 404 /\ favorites' = favorites
       /\ ( /\ req'.op = "remove_favorite_person"
            /\ req'.token \in issued
            /\ PeopleRows(favorites, req'.token.sub, req'.id) = {} )
          => resp'.status = 404 /\ favorites' = favorites]_vars

\* C5's case: a remove of a planet was answered 404 while another user holds
\* that planet and the requester holds the person with the same id.
C5_Witness ==
    /\ req.op = "remove_favorite_planet"
    /\ req.token \in issued
    /\ resp.status = 404
    /\ \E f \in favorites : f.user_id # req.token.sub /\ f.planet_id = req.id
    /\ PeopleRows(favorites, req.token.sub, req.id) # {}

\* C6: for an email not yet registered and an existing planet p, signup,
\* login, add(p), add(p), remove(p), remove(p) with the login token are
\* answered 201; 200 with a token; 200 with a list containing planet_id = p;
\* 400; 200 with an empty list; 404.
C6_EndToEnd ==
    /\ script.pc = 1 => resp.status = 201
    /\ script.pc = 2 => resp.status = 200 /\ resp.token # NoToken
    /\ script.pc = 3 => resp.status = 200 /\ \E f \in resp.list : f.planet_id = script.planet
    /\ script.pc = 4 => resp.status = 400
    /\ script.pc = 5 => resp.status = 200 /\ resp.list = {}
    /\ script.pc = 6 => resp.status = 404

\* C6's case: the scenario ran to its end beside another user's Favorite for
\* the same planet.
C6_Witness ==
    /\ script.pc = 6
    /\ resp.status = 404
    /\ \E f \in favorites : f.planet_id = script.planet

\* C7: the list a protected route returns holds exactly the Favorite rows of
\* the token's identity; an add or remove request changes at most one
\* Favorite row, owned by the requester, and leaves the User, People and
\* Planet tables as they were.
C7_OwnRowsOnly ==
    [][/\ req'.op \in ProtectedOps /\ resp'.status = 200
              => resp'.list = Owned(favorites', get_jwt_identity(req'.token))
       /\ req'.op \in AddOps \cup RemoveOps
              => /\ Cardinality(Changed(favorites, favorites')) <= 1
                 /\ \A f \in Changed(favorites, favorites') :
                        f.user_id = get_jwt_identity(req'.token)
                 /\ users' = users /\ people' = people /\ planets' = planets]_vars

\* C7's case: a remove left the requester with a Favorite while another user
\* holds one too.
C7_Witness ==
    /\ req.op = "remove_favorite_planet"
    /\ resp.status = 200
    /\ resp.list # {}
    /\ \E f \in favorites : f.user_id # req.token.sub

\* C8: an authenticated add request for a target that does not exist is
\* answered 404 and inserts nothing; for a target that exists and that the
\* user holds, 400; for a target that exists and that the user does not
\* hold, it inserts exactly one row for (user, target) and answers 200 with
\* a list containing that row.  Every Favorite row references an existing
\* Planet or Person.
C8_AddFavorite ==
    /\ [](\A f \in favorites : /\ f.planet_id # NULL => f.planet_id \in planets
                               /\ f.people_id # NULL => f.people_id \in people
                               /\ f.planet_id # NULL \/ f.people_id # NULL)
    /\ [][/\ req'.op = "add_favorite_planet" /\ req'.token \in issued =>
              IF req'.id \notin planets
              THEN resp'.status = 404 /\ favorites' = favorites
              ELSE IF PlanetRows(favorites, req'.token.sub, req'.id) # {}
              THEN resp'.status = 400 /\ favorites' = favorites
              ELSE /\ resp'.status = 200
                   /\ \E f \in favorites' \ favorites :
                        /\ favorites' = favorites \cup {f}
                        /\ f.user_id = req'.token.sub
                        /\ f.planet_id = req'.id
                        /\ f \in resp'.list
          /\ req'.op = "add_favorite_person" /\ req'.token \in issued =>
              IF req'.id \notin people
              THEN resp'.status = 404 /\ favorites' = favorites
              ELSE IF PeopleRows(favorites, req'.token.sub, req'.id) # {}
              THEN resp'.status = 400 /\ favorites' = favorites
              ELSE /\ resp'.status = 200
                   /\ \E f \in favorites' \ favorites :
                        /\ favorites' = favorites \cup {f}
                        /\ f.user_id = req'.token.sub
                        /\ f.people_id = req'.id
                        /\ f \in resp'.list]_vars

\* C8's case: an add of a person was answered 200 with a list of two rows.
C8_Witness ==
    /\ req.op = "add_favorite_person"
    /\ resp.status = 200
    /\ \E f \in resp.list : f.people_id = req.id
    /\ Cardinality(resp.list) = 2

\* C9: under SpecConc an add request that passed its existence check inserts
\* its row and is answered 200 whatever was inserted meanwhile, so two rows
\* for the same (user, target) are reachable; a remove request that finds
\* several rows for its target deletes one of them and answers with a list
\* that still contains the target.
C9_RaceNotPrevented ==
    [][/\ BagCardinality(pending') < BagCardinality(pending)
              => /\ resp'.status = 200
                 /\ Cardinality(favorites') = Cardinality(favorites) + 1
                 /\ \E f \in favorites' \ favorites :
                        /\ f.user_id = req'.token.sub
                        /\ f \in resp'.list
                        /\ IF req'.op = "add_favorite_planet"
                           THEN f.planet_id = req'.id ELSE f.people_id = req'.id
       /\ ( /\ pending' = pending
            /\ req'.op = "remove_favorite_planet"
            /\ Cardinality(PlanetRows(favorites, req'.token.sub, req'.id)) >= 2 )
              => /\ resp'.status = 200
                 /\ Cardinality(PlanetRows(favorites', req'.token.sub, req'.id))
                        = Cardinality(PlanetRows(favorites, req'.token.sub, req'.id)) - 1
                 /\ \E f \in resp'.list : f.planet_id = req'.id
       /\ ( /\ pending' = pending
            /\ req'.op = "remove_favorite_person"
            /\ Cardinality(PeopleRows(favorites, req'.token.sub, req'.id)) >= 2 )
              => /\ resp'.status = 200
                 /\ Cardinality(PeopleRows(favorites', req'.token.sub, req'.id))
                        = Cardinality(PeopleRows(favorites, req'.token.sub, req'.id)) - 1
                 /\ \E f \in resp'.list : f.people_id = req'.id]_vars

\* C9's case: both racing adds are done, and a remove of the planet was
\* answered 200 with a list that still holds the planet.
C9_Witness ==
    /\ pending = EmptyBag
    /\ req.op = "remove_favorite_planet"
    /\ resp.status = 200
    /\ \E f \in resp.list : f.planet_id = req.id
    /\ Cardinality(PlanetRows(favorites, req.token.sub, req.id)) = 1

\* C10: every Favorite row has exactly one of people_id and planet_id set.
C10_ExactlyOneTarget ==
    \A f \in favorites : (f.people_id = NULL) # (f.planet_id = NULL)

\* C10's case: the table holds a planet row and a person row.
C10_Witness ==
    /\ \E f \in favorites : f.planet_id # NULL
    /\ \E f \in favorites : f.people_id # NULL

====
